---- MODULE Spec2Model ----
(***************************************************************************)
(* Model of hetzner_ddns: one run of main (src/src/main.rs) against the    *)
(* Hetzner DNS API client (src/src/hetzner_dns.rs).                        *)
(*                                                                         *)
(* The run is sequential (tokio current_thread, every call awaited), so    *)
(* the state is main's position (pc), its locals, and the two external     *)
(* collaborators: the address discovery service and the DNS provider.      *)
(* Every network call is one step; its transport/HTTP outcome is an input. *)
(***************************************************************************)
EXTENDS Integers, Sequences, FiniteSets, TLC

----------------------------------------------------------------------------
(* Bounds of the model *)

MaxTargets == 2
MaxZones == 3
MaxRecords == 2
PerPage == 2

----------------------------------------------------------------------------
(* Values *)

\* Option<T>: None is the empty sequence, Some(x) the one-element sequence.
None == <<>>
Some(x) == <<x>>

ZoneNames == {"example.com", "example.org"}

\* Addresses as the octets / 16-bit segments std::net holds.
Ipv4Pool == {<<203, 0, 113, 7>>}
Ipv6Pool == {<<8193, 3512, 0, 0, 0, 0, 0, 1>>}

\* The ttl update_zone writes into every UpdateRecordData.
UpdateTtl == 60

----------------------------------------------------------------------------
(* ip.to_string(): the textual form of an address *)

Ipv4ToString(ip) ==
    ToString(ip[1]) \o "." \o ToString(ip[2]) \o "." \o ToString(ip[3]) \o "." \o ToString(ip[4])

HexDigits == <<"0", "1", "2", "3", "4", "5", "6", "7", "8", "9", "a", "b", "c", "d", "e", "f">>

RECURSIVE Hex(_)
Hex(n) == IF n < 16 THEN HexDigits[n + 1] ELSE Hex(n \div 16) \o HexDigits[(n % 16) + 1]

RECURSIVE JoinHex(_)
JoinHex(segs) ==
    IF segs = <<>> THEN ""
    ELSE IF Len(segs) = 1 THEN Hex(segs[1])
    ELSE Hex(segs[1]) \o ":" \o JoinHex(Tail(segs))

\* Length of the run of zero segments starting at position i.
RECURSIVE ZeroRun(_, _)
ZeroRun(ip, i) == IF i > Len(ip) \/ ip[i] # 0 THEN 0 ELSE 1 + ZeroRun(ip, i + 1)

\* Start of the first longest run of zero segments.
LongestZeroRun(ip) ==
    CHOOSE i \in 1..Len(ip) :
        /\ \A j \in 1..Len(ip) : ZeroRun(ip, j) <= ZeroRun(ip, i)
        /\ \A j \in 1..(i - 1) : ZeroRun(ip, j) < ZeroRun(ip, i)

Ipv6ToString(ip) ==
    IF SubSeq(ip, 1, 6) = <<0, 0, 0, 0, 0, 65535>>
    THEN "::ffff:" \o Ipv4ToString(<<ip[7] \div 256, ip[7] % 256, ip[8] \div 256, ip[8] % 256>>)
    ELSE LET s == LongestZeroRun(ip)
             n == ZeroRun(ip, s)
         IN  IF n > 1
             THEN JoinHex(SubSeq(ip, 1, s - 1)) \o "::" \o JoinHex(SubSeq(ip, s + n, Len(ip)))
             ELSE JoinHex(ip)

----------------------------------------------------------------------------
(* The provider: the account's zones and the records it holds *)

ZoneId(i) == "z" \o ToString(i)
RecordId(i) == "r" \o ToString(i)

Zone(i, name) == [id |-> ZoneId(i), name |-> name]

Record(i, c) ==
    [id |-> RecordId(i), name |-> c.name, typ |-> c.typ, value |-> c.value,
     ttl |-> c.ttl, zone_id |-> c.zone_id]

\* The targets a config may name: the record example.com in either zone.
Target == [zone_name : ZoneNames, record_name : {"example.com"}]

SeqsUpTo(S, n) == UNION {[1..k -> S] : k \in 0..n}

StaleValue == "192.0.2.1"

Content(name, typ, value, ttl) ==
    [name |-> name, typ |-> typ, value |-> value, ttl |-> ttl, zone_id |-> ZoneId(1)]

\* What the records of the account's first zone may be before the run: address
\* records of either family with a stale value and no ttl or a long one, a
\* record of another type, and a record of another name.  (A record that
\* already holds the host's address with ttl 60 is what a first update leaves
\* behind for a target the config names twice.)
RecordContents ==
    {Content("example.com", "A", StaleValue, None),
     Content("example.com", "AAAA", StaleValue, Some(3600)),
     Content("example.com", "CNAME", StaleValue, Some(3600)),
     Content("sub.example.com", "A", StaleValue, None)}

----------------------------------------------------------------------------
(* State *)

VARIABLES
    pc,            \* main's position
    exit,          \* how the run ended
    targets,       \* config.targets
    zones,         \* provider: the account's zones, in list order
    records,       \* provider: all records, in list order
    own_addrs,     \* (ipv4, ipv6) of get_own_ips
    t,             \* index of the target update_zone is handling
    htz_zone,      \* find_records: the zone it settled on
    htz_records,   \* update_zone: the records find_records returned
    r,             \* index of the record the loop of update_zone is at
    zone_calls,    \* get_all_zones requests sent
    record_calls,  \* get_all_records requests sent
    update_calls,  \* update_record requests sent
    skipped        \* records passed over with a warning

vars == <<pc, exit, targets, zones, records, own_addrs, t, htz_zone, htz_records, r,
          zone_calls, record_calls, update_calls, skipped>>

NoZone == [id |-> "", name |-> ""]

Init ==
    /\ pc = "get_own_ips"
    /\ exit = "running"
    /\ targets \in SeqsUpTo(Target, MaxTargets)
    /\ \E names \in SeqsUpTo(ZoneNames, MaxZones) :
           zones = [i \in 1..Len(names) |-> Zone(i, names[i])]
    /\ \E cs \in SeqsUpTo(RecordContents, MaxRecords) :
           records = [i \in 1..Len(cs) |-> Record(i, cs[i])]
    /\ own_addrs = <<None, None>>
    /\ t = 0
    /\ htz_zone = NoZone
    /\ htz_records = <<>>
    /\ r = 0
    /\ zone_calls = <<>>
    /\ record_calls = <<>>
    /\ update_calls = <<>>
    /\ skipped = <<>>

----------------------------------------------------------------------------
(* The provider's endpoints *)

Min(a, b) == IF a < b THEN a ELSE b

LastPage(n) == IF n = 0 THEN 1 ELSE (n + PerPage - 1) \div PerPage

\* GET zones: the page-th page of the account's zones (page 1 when the request
\* names none), narrowed to the zones called `name` when the request names one.
ListZones(zs, name, page) ==
    LET p == IF page = None THEN 1 ELSE page[1]
        onPage == SubSeq(zs, (p - 1) * PerPage + 1, Min(p * PerPage, Len(zs)))
    IN  [pagination |-> [last_page |-> LastPage(Len(zs)), page |-> p,
                         per_page |-> PerPage, total_entries |-> Len(zs)],
         zones |-> IF name = None THEN onPage
                   ELSE SelectSeq(onPage, LAMBDA z : z.name = name[1])]

\* GET records?zone_id=...
ListRecords(rs, zone_id) == SelectSeq(rs, LAMBDA rec : rec.zone_id = zone_id)

\* PUT records/{id}: replaces the record's name, ttl, type, value and zone.
PutRecord(rs, record_id, data) ==
    [i \in 1..Len(rs) |->
        IF rs[i].id = record_id
        THEN [id |-> rs[i].id, name |-> data.name, typ |-> data.typ, value |-> data.value,
              ttl |-> Some(data.ttl), zone_id |-> data.zone_id]
        ELSE rs[i]]

----------------------------------------------------------------------------
(* hetzner_dns::Client *)

\* The request get_all_zones sends: the name query only.
get_all_zones(name, search_name, page) == ListZones(zones, name, None)

get_all_records(zone_id) == ListRecords(records, zone_id)

----------------------------------------------------------------------------
(* main.rs *)

\* get_own_ips without its (None, None) arm.
get_own_ips_result_NoCheck(ipv4, ipv6) == "Ok"

\* The match that ends get_own_ips.
get_own_ips_result(ipv4, ipv6) ==
    IF ipv4 = None /\ ipv6 = None THEN "Err" ELSE "Ok"

\* A name filter that also lets the names below the target's through.
NameMatches_Suffix(record_name, target_name) ==
    \/ record_name = target_name
    \/ record_name = "sub." \o target_name

NameMatches(record_name, target_name) == record_name = target_name

IsAddressType(typ) == typ = "A" \/ typ = "AAAA"

\* The two filters of find_records.
FilterRecords(rs, target) ==
    SelectSeq(rs, LAMBDA rec : NameMatches(rec.name, target.record_name) /\ IsAddressType(rec.typ))

\* .zones.first(): None when the list is empty.
First(zs) == IF zs = <<>> THEN None ELSE Some(zs[1])

\* The match with a fallback to the other family's address instead of continue.
MatchValue_FallbackFamily(rec, addrs) ==
    IF rec.typ \notin {"A", "AAAA"} THEN [kind |-> "unreachable", value |-> ""]
    ELSE IF rec.typ = "A" /\ addrs[1] # None
    THEN [kind |-> "value", value |-> Ipv4ToString(addrs[1][1])]
    ELSE IF addrs[2] # None THEN [kind |-> "value", value |-> Ipv6ToString(addrs[2][1])]
    ELSE [kind |-> "value", value |-> Ipv4ToString(addrs[1][1])]

\* The match with a no-op check: a record that already holds the value is passed over.
MatchValue_SkipUnchanged(rec, addrs) ==
    LET addr == IF rec.typ = "A" THEN addrs[1] ELSE addrs[2]
        text == IF addr = None THEN ""
                ELSE IF rec.typ = "A" THEN Ipv4ToString(addr[1]) ELSE Ipv6ToString(addr[1])
    IN  IF rec.typ \notin {"A", "AAAA"} THEN [kind |-> "unreachable", value |-> ""]
        ELSE IF addr = None \/ rec.value = text THEN [kind |-> "continue", value |-> ""]
        ELSE [kind |-> "value", value |-> text]

\* The match on i_record.typ in update_zone.
MatchValue(rec, addrs) ==
    IF rec.typ = "A"
    THEN IF addrs[1] # None THEN [kind |-> "value", value |-> Ipv4ToString(addrs[1][1])]
         ELSE [kind |-> "continue", value |-> ""]
    ELSE IF rec.typ = "AAAA"
    THEN IF addrs[2] # None THEN [kind |-> "value", value |-> Ipv6ToString(addrs[2][1])]
         ELSE [kind |-> "continue", value |-> ""]
    ELSE [kind |-> "unreachable", value |-> ""]

\* An update that keeps the ttl the record had.
UpdateRecordData_KeepTtl(rec, value) ==
    [name |-> rec.name, ttl |-> IF rec.ttl = None THEN UpdateTtl ELSE rec.ttl[1],
     typ |-> rec.typ, zone_id |-> rec.zone_id, value |-> value]

UpdateRecordData(rec, value) ==
    [name |-> rec.name, ttl |-> UpdateTtl, typ |-> rec.typ, zone_id |-> rec.zone_id,
     value |-> value]

\* main returns or panics.
Exit(how) ==
    /\ pc' = "exit"
    /\ exit' = how

\* The for loop of main at target i.
ForTarget(i) ==
    IF i <= Len(targets)
    THEN /\ pc' = "find_zone"
         /\ t' = i
         /\ exit' = exit
    ELSE /\ Exit("ok")
         /\ t' = t

\* get_own_ips: each family's request fails (None), returns a malformed
\* address (error) or returns an address.
GetOwnIps ==
    /\ pc = "get_own_ips"
    /\ \E v4 \in {<<"err">>, <<"malformed">>} \cup {<<"ok", ip>> : ip \in Ipv4Pool},
          v6 \in {<<"err">>, <<"malformed">>} \cup {<<"ok", ip>> : ip \in Ipv6Pool} :
           IF v4[1] = "malformed" \/ v6[1] = "malformed"
           THEN /\ Exit("discovery_error")
                /\ own_addrs' = own_addrs
           ELSE LET ipv4 == IF v4[1] = "err" THEN None ELSE Some(v4[2])
                    ipv6 == IF v6[1] = "err" THEN None ELSE Some(v6[2])
                IN  /\ own_addrs' = <<ipv4, ipv6>>
                    /\ IF get_own_ips_result(ipv4, ipv6) = "Err"
                       THEN Exit("discovery_error")
                       ELSE pc' = "check_api_key" /\ exit' = exit
    /\ UNCHANGED <<targets, zones, records, t, htz_zone, htz_records, r,
                   zone_calls, record_calls, update_calls, skipped>>

\* main: the unfiltered zone listing that validates the api key.
CheckApiKey ==
    /\ pc = "check_api_key"
    /\ \E ok \in BOOLEAN :
        /\ zone_calls' = Append(zone_calls, [target |-> 0, name |-> None, ok |-> ok])
        /\ IF ok THEN ForTarget(1) ELSE Exit("api_key_error") /\ t' = t
    /\ UNCHANGED <<targets, zones, records, own_addrs, htz_zone, htz_records, r,
                   record_calls, update_calls, skipped>>

\* find_records, first half: the zone lookup by name.
FindZone ==
    /\ pc = "find_zone"
    /\ \E ok \in BOOLEAN :
        /\ zone_calls' = Append(zone_calls,
                                [target |-> t, name |-> Some(targets[t].zone_name), ok |-> ok])
        /\ IF ~ok
           THEN Exit("api_error") /\ htz_zone' = htz_zone
           ELSE LET first == First(get_all_zones(Some(targets[t].zone_name), None, None).zones)
                IN  IF first = None
                    THEN Exit("panic") /\ htz_zone' = htz_zone
                    ELSE /\ htz_zone' = first[1]
                         /\ pc' = "get_records"
                         /\ exit' = exit
    /\ UNCHANGED <<targets, zones, records, own_addrs, t, htz_records, r,
                   record_calls, update_calls, skipped>>

\* find_records, second half: list the zone's records and filter them.
GetRecords ==
    /\ pc = "get_records"
    /\ \E ok \in BOOLEAN :
        /\ record_calls' = Append(record_calls, [target |-> t, zone_id |-> htz_zone.id, ok |-> ok])
        /\ IF ~ok
           THEN Exit("api_error") /\ UNCHANGED <<htz_records, r>>
           ELSE /\ htz_records' = FilterRecords(get_all_records(htz_zone.id), targets[t])
                /\ r' = 1
                /\ pc' = "update_loop"
                /\ exit' = exit
    /\ UNCHANGED <<targets, zones, records, own_addrs, t, htz_zone,
                   zone_calls, update_calls, skipped>>

\* update_zone: no address of the record's family, warn and continue.
SkipRecord ==
    /\ pc = "update_loop"
    /\ r <= Len(htz_records)
    /\ MatchValue(htz_records[r], own_addrs).kind = "continue"
    /\ skipped' = Append(skipped, [target |-> t, id |-> htz_records[r].id])
    /\ r' = r + 1
    /\ UNCHANGED <<pc, exit, targets, zones, records, own_addrs, t, htz_zone, htz_records,
                   zone_calls, record_calls, update_calls>>

\* update_zone: build the value and send the update; an error response ends
\* the run (.await?), and a type that is neither A nor AAAA is unreachable!().
UpdateRecord ==
    /\ pc = "update_loop"
    /\ r <= Len(htz_records)
    /\ MatchValue(htz_records[r], own_addrs).kind # "continue"
    /\ IF MatchValue(htz_records[r], own_addrs).kind = "unreachable"
       THEN /\ Exit("panic")
            /\ UNCHANGED <<records, r, update_calls>>
       ELSE \E ok \in BOOLEAN :
            LET rec == htz_records[r]
                data == UpdateRecordData(rec, MatchValue(rec, own_addrs).value)
            IN  /\ update_calls' = Append(update_calls,
                                          [target |-> t, id |-> rec.id, record |-> rec,
                                           data |-> data, ok |-> ok])
                /\ IF ok
                   THEN /\ records' = PutRecord(records, rec.id, data)
                        /\ r' = r + 1
                        /\ UNCHANGED <<pc, exit>>
                   ELSE /\ Exit("api_error")
                        /\ UNCHANGED <<records, r>>
    /\ UNCHANGED <<targets, zones, own_addrs, t, htz_zone, htz_records,
                   zone_calls, record_calls, skipped>>

\* update_zone returns Ok; main goes on to the next target.
FinishTarget ==
    /\ pc = "update_loop"
    /\ r > Len(htz_records)
    /\ ForTarget(t + 1)
    /\ UNCHANGED <<targets, zones, records, own_addrs, htz_zone, htz_records, r,
                   zone_calls, record_calls, update_calls, skipped>>

Next ==
    \/ GetOwnIps
    \/ CheckApiKey
    \/ FindZone
    \/ GetRecords
    \/ SkipRecord
    \/ UpdateRecord
    \/ FinishTarget

Spec == Init /\ [][Next]_vars

----------------------------------------------------------------------------
(* Properties *)

Range(f) == {f[i] : i \in DOMAIN f}

\* The run ended with an error value returned from main (not Ok, not a panic).
ErrorExits == {"discovery_error", "api_key_error", "api_error"}

\* The zone lookup of target i got its response.
ZoneLookupDone(i) == \E c \in Range(zone_calls) : c.target = i /\ c.ok

\* The record listing of target i got its response, so htz_records and r
\* are those of target t.
Resolved == \/ pc = "update_loop"
            \/ pc = "exit" /\ \E c \in Range(record_calls) : c.target = t /\ c.ok

\* The zones the name lookup of target i is answered with.
ZonesReturned(i) == get_all_zones(Some(targets[i].zone_name), None, None).zones

\* No address was discovered for the record's type.
NoAddressFor(rec) == \/ rec.typ = "A" /\ own_addrs[1] = None
                     \/ rec.typ = "AAAA" /\ own_addrs[2] = None

AddressFor(rec) == \/ rec.typ = "A" /\ own_addrs[1] # None
                   \/ rec.typ = "AAAA" /\ own_addrs[2] # None

\* C1: a target whose zone lookup returns an empty zone list ends in an error
\* reported for that target (ZoneNotFound), and no update is sent for it.
C1_ZoneNotFoundReported ==
    \A i \in 1..Len(targets) :
        (ZoneLookupDone(i) /\ ZonesReturned(i) = <<>>)
            => /\ exit \in ErrorExits
               /\ \A c \in Range(update_calls) : c.target # i

\* C2: an error while handling one target does not keep the later targets
\* from being attempted: when the run has ended, each of them had its zone lookup.
C2_LaterTargetsAttempted ==
    (pc = "exit" /\ exit = "api_error")
        => \A j \in (t + 1)..Len(targets) : \E c \in Range(zone_calls) : c.target = j

\* C3: when the provider rejects the update of one record, every remaining
\* resolved record of the target with an address for its type still gets its update.
C3_RemainingRecordsUpdated ==
    (pc = "exit" /\ update_calls # <<>> /\ ~update_calls[Len(update_calls)].ok)
        => \A k \in (r + 1)..Len(htz_records) :
               AddressFor(htz_records[k])
                   => \E c \in Range(update_calls) : c.target = t /\ c.id = htz_records[k].id

\* The zones on page p of the account's zone list.
ZonesOnPage(p) == ListZones(zones, None, Some(p)).zones

\* The account's zones fill at least two pages and a zone of that name is on
\* the last page only.
OnlyOnLastPage(name) ==
    LET last == LastPage(Len(zones))
    IN  /\ last >= 2
        /\ \E z \in Range(ZonesOnPage(last)) : z.name = name
        /\ \A p \in 1..(last - 1) : \A z \in Range(ZonesOnPage(p)) : z.name # name

\* C4: a zone present only on the last of two or more pages of the zone list is
\* still found by the zone lookup.
C4_ZoneOnLastPageFound ==
    (t >= 1 /\ ZoneLookupDone(t) /\ OnlyOnLastPage(targets[t].zone_name))
        => /\ exit # "panic"
           /\ htz_zone.name = targets[t].zone_name

\* C5: a resolved A record without a discovered IPv4 address, or AAAA record
\* without a discovered IPv6 address, is skipped: no update is ever sent for its
\* id, it is passed over with a warning, and the run does not stop at it.
C5_NoAddressSkipped ==
    Resolved =>
        \A k \in 1..Len(htz_records) :
            NoAddressFor(htz_records[k])
                => /\ \A c \in Range(update_calls) : c.id # htz_records[k].id
                   /\ k < r => \E w \in Range(skipped) : w.target = t /\ w.id = htz_records[k].id
                   /\ pc = "exit" => r # k

C5_Witness ==
    /\ pc = "exit" /\ exit = "ok"
    /\ \E k \in 1..Len(htz_records) :
        /\ NoAddressFor(htz_records[k])
        /\ \E w \in Range(skipped) : w.target = t /\ w.id = htz_records[k].id
        /\ \E j \in (k + 1)..Len(htz_records) :
               \E c \in Range(update_calls) : c.target = t /\ c.id = htz_records[j].id

\* C6: every update sent carries the textual form of the discovered address of
\* the record's family, ttl 60 whatever ttl the record had, and the name, type
\* and zone of the record its id names.
C6_UpdateData ==
    \A c \in Range(update_calls) :
        /\ c.data.typ = "A" => own_addrs[1] # None /\ c.data.value = Ipv4ToString(own_addrs[1][1])
        /\ c.data.typ = "AAAA" => own_addrs[2] # None /\ c.data.value = Ipv6ToString(own_addrs[2][1])
        /\ c.data.typ \in {"A", "AAAA"}
        /\ c.data.ttl = 60
        /\ \E rec \in Range(records) :
            /\ rec.id = c.id
            /\ c.data.name = rec.name
            /\ c.data.typ = rec.typ
            /\ c.data.zone_id = rec.zone_id

C6_Witness ==
    /\ \E c \in Range(update_calls) :
           c.data.typ = "A" /\ c.record.ttl = None /\ c.data.value = "203.0.113.7"
    /\ \E c \in Range(update_calls) :
           c.data.typ = "AAAA" /\ c.record.ttl = Some(3600) /\ c.data.value = "2001:db8::1"

\* The positions, in the provider's list, of the records of the resolved zone
\* that carry the target's record name and are of type A or AAAA.
Wanted ==
    {i \in 1..Len(records) :
        /\ records[i].zone_id = htz_zone.id
        /\ records[i].name = targets[t].record_name
        /\ records[i].typ \in {"A", "AAAA"}}

\* C7: the resolved records are exactly the records of the resolved zone with
\* the target's record name and type A or AAAA, in the provider's order, and
\* an empty result does not end the run with an error.
C7_ResolvedRecords ==
    Resolved =>
        /\ Len(htz_records) = Cardinality(Wanted)
        /\ \A k \in 1..Len(htz_records) :
               \E i \in Wanted :
                   /\ records[i].id = htz_records[k].id
                   /\ Cardinality({j \in Wanted : j < i}) = k - 1
        /\ \A k \in 1..Len(htz_records) :
               /\ htz_records[k].name = targets[t].record_name
               /\ htz_records[k].typ \in {"A", "AAAA"}
               /\ htz_records[k].zone_id = htz_zone.id
        /\ (htz_records = <<>> /\ pc = "exit") => exit = "ok"

C7_Witness ==
    /\ pc = "exit" /\ exit = "ok"
    /\ Resolved
    /\ htz_records = <<>>
    /\ \E rec \in Range(records) :
           rec.zone_id = htz_zone.id /\ rec.name = targets[t].record_name /\ rec.typ = "CNAME"
    /\ \E rec \in Range(records) :
           /\ rec.zone_id = htz_zone.id /\ rec.typ = "A"
           /\ targets[t].record_name = "example.com" /\ rec.name = "sub.example.com"

\* C8: when discovery determines neither address, the run ends with the
\* discovery error and no request at all has gone to the provider.
C8_NoAddressAborts ==
    (pc # "get_own_ips" /\ own_addrs = <<None, None>>)
        => /\ pc = "exit"
           /\ exit = "discovery_error"
           /\ zone_calls = <<>>
           /\ record_calls = <<>>
           /\ update_calls = <<>>

C8_Witness ==
    /\ pc = "exit" /\ exit = "discovery_error"
    /\ own_addrs = <<None, None>>
    /\ targets # <<>>

\* C9: every resolved record the loop has passed whose type has a discovered
\* address got an update call, also when it already held that value and ttl 60.
C9_NoNoopDetection ==
    Resolved =>
        \A k \in 1..Len(htz_records) :
            (k < r /\ AddressFor(htz_records[k]))
                => \E c \in Range(update_calls) :
                       /\ c.target = t
                       /\ c.id = htz_records[k].id
                       /\ c.record = htz_records[k]

C9_Witness ==
    \E c \in Range(update_calls) :
        /\ c.ok
        /\ c.record.value = c.data.value
        /\ c.record.ttl = Some(c.data.ttl)
        /\ c.record.name = c.data.name

\* C10: a zone lookup answered with more than one matching zone ends in an
\* error for that target: no record listing and no update is sent for it.
C10_AmbiguousZoneRejected ==
    \A i \in 1..Len(targets) :
        (ZoneLookupDone(i) /\ Len(ZonesReturned(i)) > 1)
            => /\ exit \in ErrorExits
               /\ \A c \in Range(record_calls) : c.target # i
               /\ \A c \in Range(update_calls) : c.target # i

====
